---- MODULE Spec2Model ----
(***************************************************************************)
(* The local task store of caldav-tasks: the SQLite schema declared by the *)
(* three migrations of src-tauri/src/main.rs, the migrator that            *)
(* add_migrations registers them with, and the writes the store admits.    *)
(*                                                                         *)
(* A row is a tuple of column values in the column order of its table, as  *)
(* in SQL: a column is read through the table's column list, INSERT ...    *)
(* SELECT * copies by position and ADD COLUMN appends.  Every value is a   *)
(* string; the SQL null is the string "NULL".                              *)
(*                                                                         *)
(* Foreign keys are enforced (the connection the plugin opens has          *)
(* foreign_keys = ON), and each migration runs inside one transaction      *)
(* together with the row that records its version.                         *)
(***************************************************************************)
EXTENDS Naturals, Sequences, FiniteSets, TLC

VARIABLES db, tx, mig, last

\* The tray of src-tauri/src/tray.rs: its two flags, the icon registered
\* under the id "main", the commands in flight and the argument of the last
\* initialize_tray that returned.
VARIABLES TRAY_VISIBLE, TRAY_ENABLED, trayIcon, calls, lastInit

trayVars == <<TRAY_VISIBLE, TRAY_ENABLED, trayIcon, calls, lastInit>>

storeVars == <<db, tx, mig, last>>

vars == <<db, tx, mig, last, TRAY_VISIBLE, TRAY_ENABLED, trayIcon, calls, lastInit>>

NULL == "NULL"

TableNames ==
    {"accounts", "calendars", "tasks", "tasks_new", "tags",
     "pending_deletions", "ui_state"}

(***************************************************************************)
(* Table definitions.  cols: the column order; pk: the primary key;        *)
(* rowid: the key is INTEGER PRIMARY KEY (a null key is assigned);         *)
(* notnull, unique: constrained columns; checks: CHECK (col = val);        *)
(* fks: FOREIGN KEY (col) REFERENCES table(id) ON DELETE action;           *)
(* defaults: DEFAULT clauses.                                              *)
(***************************************************************************)
NoTable ==
    [cols |-> <<>>, pk |-> "", rowid |-> FALSE, notnull |-> {}, unique |-> {},
     checks |-> {}, fks |-> {}, defaults |-> {}]

AccountsDef ==
    [cols |-> <<"id", "name", "server_url", "username", "password",
                "server_type", "last_sync", "is_active">>,
     pk |-> "id", rowid |-> FALSE,
     notnull |-> {"id", "name", "server_url", "username", "password", "is_active"},
     unique |-> {}, checks |-> {}, fks |-> {},
     defaults |-> {[col |-> "is_active", val |-> "1"]}]

CalendarsDef ==
    [cols |-> <<"id", "account_id", "display_name", "url", "ctag", "sync_token",
                "color", "icon", "supported_components">>,
     pk |-> "id", rowid |-> FALSE,
     notnull |-> {"id", "account_id", "display_name", "url"},
     unique |-> {}, checks |-> {},
     fks |-> {[col |-> "account_id", table |-> "accounts", action |-> "CASCADE"]},
     defaults |-> {}]

TasksColumns ==
    <<"id", "uid", "etag", "href", "title", "description", "completed",
      "completed_at", "tags", "category_id", "priority", "start_date",
      "start_date_all_day", "due_date", "due_date_all_day", "created_at",
      "modified_at", "reminders", "subtasks", "parent_uid", "is_collapsed",
      "sort_order", "account_id", "calendar_id", "synced", "local_only">>

TasksDefaults ==
    {[col |-> "description", val |-> ""], [col |-> "completed", val |-> "0"],
     [col |-> "priority", val |-> "none"], [col |-> "subtasks", val |-> "[]"],
     [col |-> "is_collapsed", val |-> "0"], [col |-> "synced", val |-> "0"],
     [col |-> "local_only", val |-> "0"]}

TasksFks ==
    {[col |-> "account_id", table |-> "accounts", action |-> "CASCADE"],
     [col |-> "calendar_id", table |-> "calendars", action |-> "CASCADE"]}

TasksNotNull ==
    {"id", "uid", "title", "description", "completed", "priority",
     "created_at", "modified_at", "subtasks", "sort_order", "synced"}

\* The tasks table of migration 1: account_id and calendar_id are NOT NULL.
TasksDef ==
    [cols |-> TasksColumns, pk |-> "id", rowid |-> FALSE,
     notnull |-> TasksNotNull \cup {"account_id", "calendar_id"},
     unique |-> {"uid"}, checks |-> {}, fks |-> TasksFks,
     defaults |-> TasksDefaults]

\* tasks_new with etag and href declared in the other order.
TasksNewColumnsSwapped ==
    <<"id", "uid", "href", "etag", "title", "description", "completed",
      "completed_at", "tags", "category_id", "priority", "start_date",
      "start_date_all_day", "due_date", "due_date_all_day", "created_at",
      "modified_at", "reminders", "subtasks", "parent_uid", "is_collapsed",
      "sort_order", "account_id", "calendar_id", "synced", "local_only">>

TasksNewColumns ==
    <<"id", "uid", "etag", "href", "title", "description", "completed",
      "completed_at", "tags", "category_id", "priority", "start_date",
      "start_date_all_day", "due_date", "due_date_all_day", "created_at",
      "modified_at", "reminders", "subtasks", "parent_uid", "is_collapsed",
      "sort_order", "account_id", "calendar_id", "synced", "local_only">>

\* tasks_new recreated without the foreign key on calendar_id.
TasksNewDefNoCalendarFk ==
    [cols |-> TasksNewColumns, pk |-> "id", rowid |-> FALSE,
     notnull |-> TasksNotNull,
     unique |-> {"uid"}, checks |-> {},
     fks |-> {[col |-> "account_id", table |-> "accounts", action |-> "CASCADE"]},
     defaults |-> TasksDefaults]

\* tasks_new recreated with uid NOT NULL but not UNIQUE.
TasksNewDefUidNotUnique ==
    [cols |-> TasksNewColumns, pk |-> "id", rowid |-> FALSE,
     notnull |-> TasksNotNull,
     unique |-> {}, checks |-> {}, fks |-> TasksFks,
     defaults |-> TasksDefaults]

\* The tasks_new table of migration 2: account_id and calendar_id nullable.
TasksNewDef ==
    [cols |-> TasksNewColumns, pk |-> "id", rowid |-> FALSE,
     notnull |-> TasksNotNull,
     unique |-> {"uid"}, checks |-> {}, fks |-> TasksFks,
     defaults |-> TasksDefaults]

TagsDef ==
    [cols |-> <<"id", "name", "color", "icon">>,
     pk |-> "id", rowid |-> FALSE,
     notnull |-> {"id", "name", "color"},
     unique |-> {}, checks |-> {}, fks |-> {}, defaults |-> {}]

PendingDeletionsDef ==
    [cols |-> <<"uid", "href", "account_id", "calendar_id">>,
     pk |-> "uid", rowid |-> FALSE,
     notnull |-> {"uid", "href", "account_id", "calendar_id"},
     unique |-> {}, checks |-> {}, fks |-> {}, defaults |-> {}]

UiStateDef ==
    [cols |-> <<"id", "active_account_id", "active_calendar_id", "active_tag_id",
                "selected_task_id", "search_query", "sort_mode", "sort_direction",
                "show_completed_tasks", "is_editor_open">>,
     pk |-> "id", rowid |-> TRUE,
     notnull |-> {"search_query", "sort_mode", "sort_direction",
                  "show_completed_tasks", "is_editor_open"},
     unique |-> {},
     checks |-> {[col |-> "id", val |-> "1"]},
     fks |-> {},
     defaults |-> {[col |-> "search_query", val |-> ""],
                   [col |-> "sort_mode", val |-> "manual"],
                   [col |-> "sort_direction", val |-> "asc"],
                   [col |-> "show_completed_tasks", val |-> "1"],
                   [col |-> "is_editor_open", val |-> "0"]}]

(***************************************************************************)
(* The database: the recorded migration versions, the schema, the indexes  *)
(* and the rows.                                                           *)
(***************************************************************************)
EmptyDb ==
    [applied |-> {},
     schema  |-> [t \in TableNames |-> NoTable],
     indexes |-> {},
     rows    |-> [t \in TableNames |-> {}]]

Range(s) == {s[i] : i \in 1..Len(s)}

Idx(cols, c) == CHOOSE i \in 1..Len(cols) : cols[i] = c

Col(def, r, c) == r[Idx(def.cols, c)]

HasTable(d, t) == d.schema[t].cols # <<>>

Max(S) == IF S = {} THEN 0 ELSE CHOOSE x \in S : \A y \in S : y <= x

\* The schema version the store records.
Version(d) == Max(d.applied)

\* A row as a map from column name to value.
Named(def, r) == [c \in Range(def.cols) |-> Col(def, r, c)]

DefaultOf(def, c) ==
    IF \E k \in def.defaults : k.col = c
    THEN (CHOOSE k \in def.defaults : k.col = c).val
    ELSE NULL

\* The rowid an INTEGER PRIMARY KEY table assigns to a null key: one more
\* than the largest key, "1" in an empty table (the only key ui_state can
\* hold is "1").
NextRowid(def, rows) == IF rows = {} THEN "1" ELSE "2"

\* The row INSERT INTO t (columns of vals) VALUES (vals) builds.
MkRow(def, rows, vals) ==
    [i \in 1..Len(def.cols) |->
        LET c == def.cols[i]
            v == IF c \in DOMAIN vals THEN vals[c] ELSE DefaultOf(def, c)
        IN  IF def.rowid /\ c = def.pk /\ v = NULL
            THEN NextRowid(def, rows) ELSE v]

NotNullOk(def, r) == \A c \in def.notnull : Col(def, r, c) # NULL

CheckOk(def, r) == \A k \in def.checks : Col(def, r, k.col) = k.val

\* PRIMARY KEY and UNIQUE: no other row holds the same non-null value.
UniqueOk(def, others, r) ==
    \A c \in def.unique \cup {def.pk} :
        \/ Col(def, r, c) = NULL
        \/ \A q \in others : Col(def, q, c) # Col(def, r, c)

\* FOREIGN KEY: a non-null value names an existing row of the parent.
FkOk(d, def, r) ==
    \A k \in def.fks :
        \/ Col(def, r, k.col) = NULL
        \/ /\ HasTable(d, k.table)
           /\ \E p \in d.rows[k.table] :
                  Col(d.schema[k.table], p, "id") = Col(def, r, k.col)

\* SQLite's verdict on row r entering table t beside the rows `others`.
Verdict(d, t, others, r) ==
    LET def == d.schema[t]
    IN  IF ~HasTable(d, t) THEN "no such table"
        ELSE IF ~NotNullOk(def, r) THEN "NOT NULL"
        ELSE IF ~CheckOk(def, r) THEN "CHECK"
        ELSE IF ~UniqueOk(def, others, r) THEN "UNIQUE"
        ELSE IF ~FkOk(d, def, r) THEN "FOREIGN KEY"
        ELSE "ok"

Result(e, d) == [err |-> e, db |-> d]

\* INSERT INTO t (...) VALUES (...): rejected whole, or the row added.
SqlInsert(d, t, vals) ==
    LET r == MkRow(d.schema[t], d.rows[t], vals)
        e == IF HasTable(d, t) THEN Verdict(d, t, d.rows[t], r)
             ELSE "no such table"
    IN  IF e = "ok" THEN Result("ok", [d EXCEPT !.rows[t] = @ \cup {r}])
        ELSE Result(e, d)

\* INSERT OR IGNORE: a row that breaks a constraint is skipped, not an error.
SqlInsertOrIgnore(d, t, vals) ==
    LET res == SqlInsert(d, t, vals)
    IN  IF res.err \in {"NOT NULL", "CHECK", "UNIQUE"} THEN Result("ok", d)
        ELSE res

RowsWithKey(d, t, key) ==
    {r \in d.rows[t] : Col(d.schema[t], r, d.schema[t].pk) = key}

\* UPDATE t SET <columns of vals> = <vals> WHERE <pk> = key.
SqlUpdate(d, t, key, vals) ==
    IF ~HasTable(d, t) THEN Result("no such table", d)
    ELSE
    LET def  == d.schema[t]
        hit  == RowsWithKey(d, t, key)
    IN  IF hit = {} THEN Result("ok", d)
        ELSE
        LET old == CHOOSE r \in hit : TRUE
            new == [i \in 1..Len(def.cols) |->
                       IF def.cols[i] \in DOMAIN vals THEN vals[def.cols[i]]
                       ELSE old[i]]
            e   == Verdict(d, t, d.rows[t] \ {old}, new)
        IN  IF e = "ok"
            THEN Result("ok", [d EXCEPT !.rows[t] = (@ \ {old}) \cup {new}])
            ELSE Result(e, d)

(***************************************************************************)
(* DELETE with the ON DELETE CASCADE actions of the child tables.          *)
(***************************************************************************)
ChildOrder == <<"calendars", "tasks", "tasks_new">>

\* The rows of child table c that a delete of the keys of parent t takes.
Orphans(d, c, t, keys) ==
    {r \in d.rows[c] :
        \E k \in d.schema[c].fks :
            /\ k.table = t
            /\ k.action = "CASCADE"
            /\ Col(d.schema[c], r, k.col) \in keys}

RECURSIVE DeleteRows(_, _, _)
RECURSIVE CascadeInto(_, _, _, _)

CascadeInto(d, t, keys, i) ==
    IF i > Len(ChildOrder) THEN d
    ELSE LET c    == ChildOrder[i]
             gone == IF HasTable(d, c) THEN Orphans(d, c, t, keys) ELSE {}
             d1   == IF gone = {} THEN d ELSE DeleteRows(d, c, gone)
         IN  CascadeInto(d1, t, keys, i + 1)

DeleteRows(d, t, R) ==
    LET d1 == [d EXCEPT !.rows[t] = @ \ R]
    IN  IF R = {} \/ d.schema[t].pk # "id" THEN d1
        ELSE CascadeInto(d1, t, {Col(d.schema[t], r, "id") : r \in R}, 1)

\* DELETE FROM t WHERE <pk> = key.
SqlDelete(d, t, key) ==
    IF ~HasTable(d, t) THEN Result("no such table", d)
    ELSE Result("ok", DeleteRows(d, t, RowsWithKey(d, t, key)))

(***************************************************************************)
(* The schema statements the migrations use.                               *)
(***************************************************************************)
\* CREATE TABLE [IF NOT EXISTS] t (...).
SqlCreateTable(d, t, def, ine) ==
    IF HasTable(d, t)
    THEN IF ine THEN Result("ok", d) ELSE Result("table exists", d)
    ELSE Result("ok", [d EXCEPT !.schema[t] = def])

\* CREATE INDEX [IF NOT EXISTS] name ON t(col).
SqlCreateIndex(d, name, t, col, ine) ==
    IF \E x \in d.indexes : x.name = name
    THEN IF ine THEN Result("ok", d) ELSE Result("index exists", d)
    ELSE IF ~HasTable(d, t) \/ col \notin Range(d.schema[t].cols)
    THEN Result("no such table", d)
    ELSE Result("ok", [d EXCEPT !.indexes =
                          @ \cup {[name |-> name, table |-> t, col |-> col]}])

\* INSERT INTO into SELECT * FROM from: the rows are copied by position.
SqlInsertSelect(d, into, from) ==
    IF ~HasTable(d, into) \/ ~HasTable(d, from) THEN Result("no such table", d)
    ELSE IF Len(d.schema[into].cols) # Len(d.schema[from].cols)
    THEN Result("column count", d)
    ELSE
    LET src == d.rows[from]
        bad == {r \in src :
                   Verdict(d, into, d.rows[into] \cup (src \ {r}), r) # "ok"}
    IN  IF bad = {}
        THEN Result("ok", [d EXCEPT !.rows[into] = @ \cup src])
        ELSE Result(Verdict(d, into, d.rows[into],
                            CHOOSE r \in bad : TRUE), d)

\* DROP TABLE t: with foreign keys on, an implicit DELETE FROM t first.
SqlDropTable(d, t) ==
    IF ~HasTable(d, t) THEN Result("no such table", d)
    ELSE LET d1 == DeleteRows(d, t, d.rows[t])
         IN  Result("ok", [d1 EXCEPT !.schema[t] = NoTable,
                                     !.rows[t] = {},
                                     !.indexes = {x \in @ : x.table # t}])

\* ALTER TABLE t RENAME TO to.
SqlRenameTable(d, t, to) ==
    IF ~HasTable(d, t) THEN Result("no such table", d)
    ELSE IF HasTable(d, to) THEN Result("table exists", d)
    ELSE Result("ok",
            [d EXCEPT !.schema = [u \in TableNames |->
                                    IF u = to THEN d.schema[t]
                                    ELSE IF u = t THEN NoTable
                                    ELSE d.schema[u]],
                      !.rows = [u \in TableNames |->
                                    IF u = to THEN d.rows[t]
                                    ELSE IF u = t THEN {}
                                    ELSE d.rows[u]],
                      !.indexes = {IF x.table = t THEN [x EXCEPT !.table = to]
                                   ELSE x : x \in @}])

\* ALTER TABLE t ADD COLUMN col TEXT: the column is appended, null in every row.
SqlAddColumn(d, t, col) ==
    IF ~HasTable(d, t) THEN Result("no such table", d)
    ELSE IF col \in Range(d.schema[t].cols) THEN Result("duplicate column", d)
    ELSE Result("ok",
            [d EXCEPT !.schema[t].cols = Append(@, col),
                      !.rows[t] = {Append(r, NULL) : r \in @}])

\* One statement of a migration script.
Exec(d, s) ==
    CASE s.op = "create_table"  -> SqlCreateTable(d, s.table, s.def, s.ine)
      [] s.op = "create_index"  -> SqlCreateIndex(d, s.name, s.table, s.col, s.ine)
      [] s.op = "insert_ignore" -> SqlInsertOrIgnore(d, s.table, s.vals)
      [] s.op = "insert_select" -> SqlInsertSelect(d, s.table, s.from)
      [] s.op = "drop_table"    -> SqlDropTable(d, s.table)
      [] s.op = "rename_table"  -> SqlRenameTable(d, s.table, s.to)
      [] s.op = "add_column"    -> SqlAddColumn(d, s.table, s.col)

CreateTable(t, def, ine) ==
    [op |-> "create_table", table |-> t, def |-> def, ine |-> ine]

CreateIndex(name, t, col, ine) ==
    [op |-> "create_index", name |-> name, table |-> t, col |-> col, ine |-> ine]

(***************************************************************************)
(* The migrations vec of main.                                             *)
(***************************************************************************)
Migration1 ==
    [version |-> 1,
     description |-> "create_initial_tables",
     sql |-> <<
        CreateTable("accounts", AccountsDef, TRUE),
        CreateTable("calendars", CalendarsDef, TRUE),
        CreateTable("tasks", TasksDef, TRUE),
        CreateTable("tags", TagsDef, TRUE),
        CreateTable("pending_deletions", PendingDeletionsDef, TRUE),
        CreateTable("ui_state", UiStateDef, TRUE),
        [op |-> "insert_ignore", table |-> "ui_state", vals |-> [id |-> "1"]],
        CreateIndex("idx_tasks_calendar_id", "tasks", "calendar_id", TRUE),
        CreateIndex("idx_tasks_account_id", "tasks", "account_id", TRUE),
        CreateIndex("idx_tasks_parent_uid", "tasks", "parent_uid", TRUE),
        CreateIndex("idx_tasks_uid", "tasks", "uid", TRUE),
        CreateIndex("idx_calendars_account_id", "calendars", "account_id", TRUE)
     >>]

Migration2 ==
    [version |-> 2,
     description |-> "make_task_account_calendar_nullable",
     sql |-> <<
        CreateTable("tasks_new", TasksNewDef, FALSE),
        [op |-> "insert_select", table |-> "tasks_new", from |-> "tasks"],
        [op |-> "drop_table", table |-> "tasks"],
        [op |-> "rename_table", table |-> "tasks_new", to |-> "tasks"],
        CreateIndex("idx_tasks_calendar_id", "tasks", "calendar_id", FALSE),
        CreateIndex("idx_tasks_account_id", "tasks", "account_id", FALSE),
        CreateIndex("idx_tasks_parent_uid", "tasks", "parent_uid", FALSE),
        CreateIndex("idx_tasks_uid", "tasks", "uid", FALSE)
     >>]

Migration3 ==
    [version |-> 3,
     description |-> "add_url_field_to_tasks",
     sql |-> << [op |-> "add_column", table |-> "tasks", col |-> "url"] >>]

\* The list with migration 3 registered under version 2.
MigrationsVersionReused ==
    <<Migration1, Migration2, [Migration3 EXCEPT !.version = 2]>>

Migrations == <<Migration1, Migration2, Migration3>>

(***************************************************************************)
(* The migrator add_migrations hands the list to.  It walks the list in    *)
(* order, skips a migration the store already records and applies the      *)
(* others, each in a transaction of its own that also records the version. *)
(* A statement the store rejects, or a failure of the environment in the   *)
(* middle of a script, rolls the transaction back and ends the run.        *)
(*                                                                         *)
(* The list only grows: a release ships the first n migrations, main.rs    *)
(* ships all three.  A store at version 1 or 2 is one that a release with  *)
(* fewer migrations opened, or one whose last run failed.                  *)
(***************************************************************************)
StoppedMig ==
    [state |-> "stopped", n |-> 0, i |-> 0, start |-> 0, before |-> EmptyDb,
     base |-> EmptyDb, ran |-> <<>>, err |-> "", at |-> 0]

ServingMig == [StoppedMig EXCEPT !.state = "serving"]

\* The outcome of the last operation of the application layer.
NoOp == [op |-> "none", id |-> "", res |-> "ok"]

NoTx == [open |-> FALSE, db |-> EmptyDb, stmt |-> 0]

\* Whether the run applies migration m to store d.
ShouldApply(d, m) == m.version > Version(d)

\* A failure that leaves the statements already run in place.
RollbackKeepsWork(base, work) == work

\* What a failed transaction leaves: the store as it was at BEGIN.
Rollback(base, work) == base

\* What COMMIT leaves: the script's work and the recorded version.
Commit(work, m) == [work EXCEPT !.applied = @ \cup {m.version}]

Running == mig.state = "running" /\ ~tx.open

\* A release that ships the first n migrations starts on the store.
Startup(n) ==
    /\ mig.state \in {"stopped", "serving"}
    /\ n >= Version(db)
    /\ mig' = [state |-> "running", n |-> n, i |-> 1, start |-> Version(db),
               before |-> db, base |-> db, ran |-> <<>>, err |-> "", at |-> 0]
    /\ last' = NoOp
    /\ UNCHANGED <<db, tx, trayVars>>

SkipMigration ==
    /\ Running
    /\ mig.i <= mig.n
    /\ ~ShouldApply(db, Migrations[mig.i])
    /\ mig' = [mig EXCEPT !.i = @ + 1]
    /\ UNCHANGED <<db, tx, last, trayVars>>

BeginMigration ==
    /\ Running
    /\ mig.i <= mig.n
    /\ ShouldApply(db, Migrations[mig.i])
    /\ tx' = [open |-> TRUE, db |-> db, stmt |-> 1]
    /\ mig' = [mig EXCEPT !.base = db]
    /\ UNCHANGED <<db, last, trayVars>>

ExecStatement ==
    /\ tx.open
    /\ tx.stmt <= Len(Migrations[mig.i].sql)
    /\ LET res == Exec(tx.db, Migrations[mig.i].sql[tx.stmt])
       IN  IF res.err = "ok"
           THEN /\ tx' = [tx EXCEPT !.db = res.db, !.stmt = @ + 1]
                /\ UNCHANGED <<db, mig>>
           ELSE /\ tx' = NoTx
                /\ db' = Rollback(mig.base, tx.db)
                /\ mig' = [mig EXCEPT !.state = "failed", !.err = res.err,
                                     !.at = tx.stmt]
    /\ UNCHANGED <<last, trayVars>>

\* The environment fails the script part-way (disk full, crash, kill).
FailMigration ==
    /\ tx.open
    /\ tx' = NoTx
    /\ db' = Rollback(mig.base, tx.db)
    /\ mig' = [mig EXCEPT !.state = "failed", !.err = "io", !.at = tx.stmt]
    /\ UNCHANGED <<last, trayVars>>

CommitMigration ==
    /\ tx.open
    /\ tx.stmt > Len(Migrations[mig.i].sql)
    /\ db' = Commit(tx.db, Migrations[mig.i])
    /\ tx' = NoTx
    /\ mig' = [mig EXCEPT !.i = @ + 1,
                          !.ran = Append(@, Migrations[mig.i].version)]
    /\ UNCHANGED <<last, trayVars>>

FinishRun ==
    /\ Running
    /\ mig.i > mig.n
    /\ mig' = [mig EXCEPT !.state = "done"]
    /\ UNCHANGED <<db, tx, last, trayVars>>

\* A completed run opens the store to the application; a failed one ends
\* the startup.
Close ==
    /\ mig.state \in {"done", "failed"}
    /\ mig' = IF mig.state = "done" THEN ServingMig ELSE StoppedMig
    /\ UNCHANGED <<db, tx, last, trayVars>>

Migrator ==
    \/ \E n \in 1..Len(Migrations) : Startup(n)
    \/ SkipMigration
    \/ BeginMigration
    \/ ExecStatement
    \/ FailMigration
    \/ CommitMigration
    \/ FinishRun
    \/ Close

(***************************************************************************)
(* The writes the store admits, once a run of the migrator has completed.  *)
(***************************************************************************)
Serving == mig.state = "serving"

Write(res) ==
    /\ Serving
    /\ db' = res.db
    /\ UNCHANGED <<tx, mig, last, trayVars>>

AccountVals(a) ==
    [id |-> a, name |-> "n", server_url |-> "s", username |-> "u",
     password |-> "p"]

CalendarVals(c, a, ctag) ==
    [id |-> c, account_id |-> a, display_name |-> "d", url |-> "u",
     ctag |-> ctag]

TaskVals(id, uid, href, parent, a, c) ==
    [id |-> id, uid |-> uid, href |-> href, title |-> "x",
     created_at |-> "ts", modified_at |-> "ts", parent_uid |-> parent,
     sort_order |-> "0", account_id |-> a, calendar_id |-> c]

InsertAccount(a) == Write(SqlInsert(db, "accounts", AccountVals(a)))

DeleteAccount(a) == Write(SqlDelete(db, "accounts", a))

InsertCalendar(c, a) == Write(SqlInsert(db, "calendars", CalendarVals(c, a, NULL)))

UpdateCalendar(c, col, v) == Write(SqlUpdate(db, "calendars", c, col :> v))

DeleteCalendar(c) == Write(SqlDelete(db, "calendars", c))

InsertTask(vals) == Write(SqlInsert(db, "tasks", vals))

UpdateTask(id, col, v) == Write(SqlUpdate(db, "tasks", id, col :> v))

DeleteTaskRow(id) == Write(SqlDelete(db, "tasks", id))

InsertTag(g) ==
    Write(SqlInsert(db, "tags", [id |-> g, name |-> "n", color |-> "c"]))

DeleteTag(g) == Write(SqlDelete(db, "tags", g))

InsertPendingDeletion(vals) == Write(SqlInsert(db, "pending_deletions", vals))

DeletePendingDeletion(uid) == Write(SqlDelete(db, "pending_deletions", uid))

InsertUiState(id) == Write(SqlInsert(db, "ui_state", [id |-> id]))

\* INSERT INTO ui_state (id, sort_mode) VALUES (1, v)
\*     ON CONFLICT(id) DO UPDATE SET sort_mode = v
UpsertUiState(v) ==
    Write(IF RowsWithKey(db, "ui_state", "1") = {}
          THEN SqlInsert(db, "ui_state", [id |-> "1", sort_mode |-> v])
          ELSE SqlUpdate(db, "ui_state", "1", [sort_mode |-> v]))

DeleteUiState(id) == Write(SqlDelete(db, "ui_state", id))

(***************************************************************************)
(* Spec: two accounts and their calendars; the tasks differ in id, uid     *)
(* and owner.                                                              *)
(***************************************************************************)
\* The threads of the async runtime that run the commands the webview
\* invokes: two commands can be in flight at once.
Workers == {"w1", "w2"}

\* No tray icon has been built.
NoTrayIcon == [exists |-> FALSE, visible |-> FALSE]

\* A worker that runs no command; ret is what its last command returned.
IdleCall == [pc |-> "idle", cmd |-> "none", arg |-> FALSE, ret |-> "none"]

AccountIds == {"a1", "a2"}
CalendarIds == {"c1", "c2"}
TaskIds == {"t1", "t2"}
Uids == {"u1", "u2"}

Init ==
    /\ db = EmptyDb
    /\ tx = NoTx
    /\ mig = StoppedMig
    /\ last = NoOp
    /\ TRAY_VISIBLE = TRUE
    /\ TRAY_ENABLED = TRUE
    /\ trayIcon = NoTrayIcon
    /\ calls = [w \in Workers |-> IdleCall]
    /\ lastInit = "never"

Next ==
    \/ Migrator
    \/ \E a \in AccountIds : InsertAccount(a) \/ DeleteAccount(a)
    \/ \E c \in CalendarIds :
          \/ \E a \in AccountIds : InsertCalendar(c, a)
          \/ \E a \in AccountIds : UpdateCalendar(c, "account_id", a)
          \/ DeleteCalendar(c)
    \/ \E id \in TaskIds :
          \/ \E uid \in Uids, a \in AccountIds \cup {NULL},
                c \in CalendarIds \cup {NULL} :
                InsertTask(TaskVals(id, uid, NULL, NULL, a, c))
          \/ \E uid \in Uids : UpdateTask(id, "uid", uid)
          \/ \E a \in AccountIds \cup {NULL} : UpdateTask(id, "account_id", a)
          \/ \E c \in CalendarIds \cup {NULL} : UpdateTask(id, "calendar_id", c)
          \/ DeleteTaskRow(id)

Spec == Init /\ [][Next]_vars

(***************************************************************************)
(* SpecRows: one account and one calendar; the tasks differ in id, uid,    *)
(* href and owner, and the tags, pending_deletions and ui_state tables     *)
(* are written too.                                                        *)
(***************************************************************************)
Hrefs == {"h1"}

NextRows ==
    \/ Migrator
    \/ InsertAccount("a1")
    \/ DeleteAccount("a1")
    \/ InsertCalendar("c1", "a1")
    \/ DeleteCalendar("c1")
    \/ \E id \in TaskIds :
          \/ \E uid \in Uids, h \in Hrefs \cup {NULL},
                a \in {"a1", NULL}, c \in {"c1", NULL} :
                InsertTask(TaskVals(id, uid, h, NULL, a, c))
          \/ DeleteTaskRow(id)
    \/ InsertTag("g1")
    \/ DeleteTag("g1")
    \/ InsertPendingDeletion([uid |-> "u1", href |-> "h1",
                              account_id |-> "a1", calendar_id |-> "c1"])
    \/ DeletePendingDeletion("u1")
    \/ \E id \in {NULL, "1", "2"} : InsertUiState(id) \/ DeleteUiState(id)
    \/ \E v \in {"manual", "due"} : UpsertUiState(v)

SpecRows == Init /\ [][NextRows]_vars

(***************************************************************************)
(* SpecTree: one account with two calendars; the tasks differ in id, uid,  *)
(* parent_uid and calendar.                                                *)
(***************************************************************************)
NextTree ==
    \/ Migrator
    \/ InsertAccount("a1")
    \/ \E c \in CalendarIds : InsertCalendar(c, "a1") \/ DeleteCalendar(c)
    \/ \E id \in TaskIds :
          \/ \E uid \in Uids, parent \in Uids \cup {NULL}, c \in CalendarIds :
                InsertTask(TaskVals(id, uid, NULL, parent, "a1", c))
          \/ \E parent \in Uids \cup {NULL} : UpdateTask(id, "parent_uid", parent)
          \/ DeleteTaskRow(id)

SpecTree == Init /\ [][NextTree]_vars

(***************************************************************************)
(* The operations of the sync-state tracker, on a fully migrated store.    *)
(* Each is one transaction: it takes effect whole or not at all.           *)
(***************************************************************************)
Ready == Serving /\ Version(db) = Len(Migrations)

Outcome(res, d) == [res |-> res, db |-> d]

TaskRows(d) == d.rows["tasks"]

TaskCol(d, r, c) == Col(d.schema["tasks"], r, c)

CalendarCol(d, r, c) == Col(d.schema["calendars"], r, c)

\* The href the server assigns to the resource of uid u.
HrefFor(u) == IF u = "u1" THEN "h1" ELSE "h2"

\* A task is Dirty when it has reached the server and has local edits.
IsDirty(d, r) == TaskCol(d, r, "href") # NULL /\ TaskCol(d, r, "synced") = "0"

CreateTaskResult(d, id, uid, a, c) ==
    LET w == SqlInsert(d, "tasks", TaskVals(id, uid, NULL, NULL, a, c))
    IN  IF w.err = "ok" THEN Outcome("ok", w.db)
        ELSE Outcome("ConstraintViolation", d)

\* A local edit of a field: the task is no longer known to match the server.
EditTaskResult(d, id, title) ==
    IF RowsWithKey(d, "tasks", id) = {} THEN Outcome("NotFound", d)
    ELSE Outcome("ok", SqlUpdate(d, "tasks", id,
                                 [title |-> title, synced |-> "0"]).db)

\* A successful push: the server's href and new etag are recorded.
PushTaskResult(d, id, etag) ==
    IF RowsWithKey(d, "tasks", id) = {} THEN Outcome("NotFound", d)
    ELSE
    LET r == CHOOSE q \in RowsWithKey(d, "tasks", id) : TRUE
    IN  IF \/ TaskCol(d, r, "synced") = "1"
           \/ TaskCol(d, r, "local_only") = "1"
           \/ TaskCol(d, r, "calendar_id") = NULL
           \/ TaskCol(d, r, "etag") = etag
        THEN Outcome("NothingToPush", d)
        ELSE Outcome("ok", SqlUpdate(d, "tasks", id,
                 [href |-> IF TaskCol(d, r, "href") = NULL
                           THEN HrefFor(TaskCol(d, r, "uid"))
                           ELSE TaskCol(d, r, "href"),
                  etag |-> etag, synced |-> "1"]).db)

\* A fetch that takes the server's copy whatever the local state.
FetchResultRemoteWins(d, c, ctag, id, etag, title) ==
    IF RowsWithKey(d, "calendars", c) = {} THEN Outcome("NotFound", d)
    ELSE
    LET k  == CHOOSE q \in RowsWithKey(d, "calendars", c) : TRUE
        d1 == SqlUpdate(d, "calendars", c, [ctag |-> ctag]).db
        member == {r \in RowsWithKey(d, "tasks", id) :
                      /\ TaskCol(d, r, "href") # NULL
                      /\ TaskCol(d, r, "calendar_id") = c}
    IN  IF CalendarCol(d, k, "ctag") = ctag THEN Outcome("unchanged", d)
        ELSE IF member = {} THEN Outcome("ok", d1)
        ELSE Outcome("ok", SqlUpdate(d1, "tasks", id,
                 [title |-> title, etag |-> etag, synced |-> "1"]).db)

\* A remote fetch of calendar c that reports ctag and, for the resource of
\* task id, etag and title.
FetchResult(d, c, ctag, id, etag, title) ==
    IF RowsWithKey(d, "calendars", c) = {} THEN Outcome("NotFound", d)
    ELSE
    LET k  == CHOOSE q \in RowsWithKey(d, "calendars", c) : TRUE
        d1 == SqlUpdate(d, "calendars", c, [ctag |-> ctag]).db
        member == {r \in RowsWithKey(d, "tasks", id) :
                      /\ TaskCol(d, r, "href") # NULL
                      /\ TaskCol(d, r, "calendar_id") = c}
    IN  IF CalendarCol(d, k, "ctag") = ctag THEN Outcome("unchanged", d)
        ELSE IF member = {} THEN Outcome("ok", d1)
        ELSE LET r == CHOOSE q \in member : TRUE
             IN  IF TaskCol(d, r, "etag") = etag THEN Outcome("ok", d1)
                 ELSE IF IsDirty(d, r) THEN Outcome("SyncConflict", d)
                 ELSE Outcome("ok", SqlUpdate(d1, "tasks", id,
                          [title |-> title, etag |-> etag, synced |-> "1"]).db)

\* The tombstone of task row r.
Tombstone(d, r) ==
    [uid |-> TaskCol(d, r, "uid"), href |-> TaskCol(d, r, "href"),
     account_id |-> TaskCol(d, r, "account_id"),
     calendar_id |-> TaskCol(d, r, "calendar_id")]

\* A local delete: a task that has reached the server leaves a tombstone.
DeleteTaskResult(d, id) ==
    IF RowsWithKey(d, "tasks", id) = {} THEN Outcome("NotFound", d)
    ELSE
    LET r == CHOOSE q \in RowsWithKey(d, "tasks", id) : TRUE
        w == SqlInsert(d, "pending_deletions", Tombstone(d, r))
    IN  IF TaskCol(d, r, "href") = NULL
        THEN Outcome("ok", SqlDelete(d, "tasks", id).db)
        ELSE IF w.err # "ok" THEN Outcome("ConstraintViolation", d)
        ELSE Outcome("ok", SqlDelete(w.db, "tasks", id).db)

\* The server has confirmed the delete of uid.
ConfirmRemoteDeleteResult(d, uid) ==
    Outcome("ok", SqlDelete(d, "pending_deletions", uid).db)

Apply(op, id, out) ==
    /\ Ready
    /\ db' = out.db
    /\ last' = [op |-> op, id |-> id, res |-> out.res]
    /\ UNCHANGED <<tx, mig, trayVars>>

CreateTask(id, uid, a, c) == Apply("CreateTask", id, CreateTaskResult(db, id, uid, a, c))

EditTask(id, title) == Apply("EditTask", id, EditTaskResult(db, id, title))

PushTask(id, etag) == Apply("PushTask", id, PushTaskResult(db, id, etag))

Fetch(c, ctag, id, etag, title) ==
    Apply("Fetch", id, FetchResult(db, c, ctag, id, etag, title))

DeleteTask(id) == Apply("DeleteTask", id, DeleteTaskResult(db, id))

ConfirmRemoteDelete(uid) ==
    Apply("ConfirmRemoteDelete", uid, ConfirmRemoteDeleteResult(db, uid))

(***************************************************************************)
(* SpecSync: one account, one calendar and one task, edited locally,       *)
(* pushed, fetched and deleted.                                            *)
(***************************************************************************)
Etags == {"e1", "e2"}
Ctags == {"1", "2"}
LocalTitles == {"x", "y"}
RemoteTitles == {"r"}

NextSync ==
    \/ Migrator
    \/ InsertAccount("a1")
    \/ InsertCalendar("c1", "a1")
    \/ DeleteCalendar("c1")
    \/ UpdateTask("t1", "account_id", NULL)
    \/ UpdateTask("t1", "calendar_id", NULL)
    \/ \E a \in {"a1", NULL}, c \in {"c1", NULL} : CreateTask("t1", "u1", a, c)
    \/ \E title \in LocalTitles : EditTask("t1", title)
    \/ \E etag \in Etags : PushTask("t1", etag)
    \/ \E ctag \in Ctags, etag \in Etags, title \in RemoteTitles :
          Fetch("c1", ctag, "t1", etag, title)
    \/ DeleteTask("t1")
    \/ ConfirmRemoteDelete("u1")

SpecSync == Init /\ [][NextSync]_vars

(***************************************************************************)
(* The tray commands of src-tauri/src/tray.rs.  Each is an async command:  *)
(* the runtime runs it on a worker thread, so two may be in flight at      *)
(* once, and a command is one step per access to the shared state (a flag  *)
(* behind its own mutex, or the application's list of tray icons).         *)
(***************************************************************************)
Goto(w, pc) == [calls EXCEPT ![w].pc = pc]

Return(w, ret) == [calls EXCEPT ![w].pc = "idle", ![w].ret = ret]

At(w, cmd, pc) == calls[w].cmd = cmd /\ calls[w].pc = pc

\* No command is in flight.
Quiescent == \A w \in Workers : calls[w].pc = "idle"

\* is_tray_enabled()
is_tray_enabled == TRAY_ENABLED

\* The webview invokes initialize_tray(enabled).
InvokeInitializeTray(w, enabled) ==
    /\ calls[w].pc = "idle"
    /\ calls' = [calls EXCEPT ![w] = [pc |-> "init_26", cmd |-> "initialize_tray",
                                      arg |-> enabled, ret |-> "none"]]
    /\ UNCHANGED <<TRAY_VISIBLE, TRAY_ENABLED, trayIcon, lastInit, storeVars>>

\* *TRAY_VISIBLE.lock() = enabled
InitStoreVisible(w) ==
    /\ At(w, "initialize_tray", "init_26")
    /\ TRAY_VISIBLE' = calls[w].arg
    /\ calls' = Goto(w, "init_27")
    /\ UNCHANGED <<TRAY_ENABLED, trayIcon, lastInit, storeVars>>

\* *TRAY_ENABLED.lock() = enabled
InitStoreEnabled(w) ==
    /\ At(w, "initialize_tray", "init_27")
    /\ TRAY_ENABLED' = calls[w].arg
    /\ calls' = Goto(w, "init_30")
    /\ UNCHANGED <<TRAY_VISIBLE, trayIcon, lastInit, storeVars>>

\* if !enabled { return Ok(()) }
InitReturnDisabled(w) ==
    /\ At(w, "initialize_tray", "init_30")
    /\ ~calls[w].arg
    /\ calls' = Return(w, "Ok")
    /\ lastInit' = "disabled"
    /\ UNCHANGED <<TRAY_VISIBLE, TRAY_ENABLED, trayIcon, storeVars>>

\* The menu and TrayIconBuilder::with_id("main") ... .build(&app_handle)?:
\* the icon is added to the application's icons.  tray_by_id finds the
\* first icon of that id, so an icon built earlier stays the one found.
InitBuildTray(w) ==
    /\ At(w, "initialize_tray", "init_30")
    /\ calls[w].arg
    /\ trayIcon' = IF trayIcon.exists THEN trayIcon
                   ELSE [exists |-> TRUE, visible |-> TRUE]
    /\ calls' = Return(w, "Ok")
    /\ lastInit' = "enabled"
    /\ UNCHANGED <<TRAY_VISIBLE, TRAY_ENABLED, storeVars>>

\* One of the map_err(..)? of the menu, the icon or the build returns Err.
InitBuildFails(w) ==
    /\ At(w, "initialize_tray", "init_30")
    /\ calls[w].arg
    /\ calls' = Return(w, "Err")
    /\ lastInit' = "enabled"
    /\ UNCHANGED <<TRAY_VISIBLE, TRAY_ENABLED, trayIcon, storeVars>>

\* get_tray_enabled(): Ok(is_tray_enabled())
GetTrayEnabled(w) ==
    /\ calls[w].pc = "idle"
    /\ calls' = [calls EXCEPT ![w] =
                   [pc |-> "idle", cmd |-> "get_tray_enabled", arg |-> FALSE,
                    ret |-> IF is_tray_enabled THEN "Ok(true)" ELSE "Ok(false)"]]
    /\ UNCHANGED <<TRAY_VISIBLE, TRAY_ENABLED, trayIcon, lastInit, storeVars>>

\* The webview invokes set_tray_visible(visible).
InvokeSetTrayVisible(w, visible) ==
    /\ calls[w].pc = "idle"
    /\ calls' = [calls EXCEPT ![w] = [pc |-> "set_163", cmd |-> "set_tray_visible",
                                      arg |-> visible, ret |-> "none"]]
    /\ UNCHANGED <<TRAY_VISIBLE, TRAY_ENABLED, trayIcon, lastInit, storeVars>>

\* if let Some(tray) = app_handle.tray_by_id(&tray_id): no icon, Ok(()).
SetNoTray(w) ==
    /\ At(w, "set_tray_visible", "set_163")
    /\ ~trayIcon.exists
    /\ calls' = Return(w, "Ok")
    /\ UNCHANGED <<TRAY_VISIBLE, TRAY_ENABLED, trayIcon, lastInit, storeVars>>

\* if let Some(tray) = app_handle.tray_by_id(&tray_id): the icon is found.
SetFindsTray(w) ==
    /\ At(w, "set_tray_visible", "set_163")
    /\ trayIcon.exists
    /\ calls' = Goto(w, "set_164")
    /\ UNCHANGED <<TRAY_VISIBLE, TRAY_ENABLED, trayIcon, lastInit, storeVars>>

\* tray.set_visible(visible) succeeds.
SetIconVisible(w) ==
    /\ At(w, "set_tray_visible", "set_164")
    /\ trayIcon' = [trayIcon EXCEPT !.visible = calls[w].arg]
    /\ calls' = Goto(w, "set_165")
    /\ UNCHANGED <<TRAY_VISIBLE, TRAY_ENABLED, lastInit, storeVars>>

\* tray.set_visible(visible).map_err(..)? returns Err.
SetIconFails(w) ==
    /\ At(w, "set_tray_visible", "set_164")
    /\ calls' = Return(w, "Err")
    /\ UNCHANGED <<TRAY_VISIBLE, TRAY_ENABLED, trayIcon, lastInit, storeVars>>

\* *TRAY_VISIBLE.lock() = visible
SetStoreVisible(w) ==
    /\ At(w, "set_tray_visible", "set_165")
    /\ TRAY_VISIBLE' = calls[w].arg
    /\ calls' = Goto(w, "set_166")
    /\ UNCHANGED <<TRAY_ENABLED, trayIcon, lastInit, storeVars>>

\* *TRAY_ENABLED.lock() = visible; Ok(())
SetStoreEnabled(w) ==
    /\ At(w, "set_tray_visible", "set_166")
    /\ TRAY_ENABLED' = calls[w].arg
    /\ calls' = Return(w, "Ok")
    /\ UNCHANGED <<TRAY_VISIBLE, trayIcon, lastInit, storeVars>>

NextTray ==
    \E w \in Workers :
        \/ \E enabled \in BOOLEAN : InvokeInitializeTray(w, enabled)
        \/ InitStoreVisible(w)
        \/ InitStoreEnabled(w)
        \/ InitReturnDisabled(w)
        \/ InitBuildTray(w)
        \/ InitBuildFails(w)
        \/ GetTrayEnabled(w)
        \/ \E visible \in BOOLEAN : InvokeSetTrayVisible(w, visible)
        \/ SetNoTray(w)
        \/ SetFindsTray(w)
        \/ SetIconVisible(w)
        \/ SetIconFails(w)
        \/ SetStoreVisible(w)
        \/ SetStoreEnabled(w)

SpecTray == Init /\ [][NextTray]_vars

(***************************************************************************)
(* Claims about the tray.                                                  *)
(***************************************************************************)
\* With no command in flight the two flags agree.
TrayFlagsAgree == Quiescent => TRAY_VISIBLE = TRAY_ENABLED

\* A step of a set_tray_visible command run by worker w.
SetTrayVisibleStep(w) ==
    /\ calls[w].cmd = "set_tray_visible"
    /\ calls[w].pc # "idle"
    /\ calls'[w] # calls[w]

\* A set_tray_visible that finds no icon "main" returns Ok and leaves both
\* flags as they are.
TrayNoIconNoChange ==
    \A w \in Workers :
        (SetTrayVisibleStep(w) /\ calls[w].pc = "set_163" /\ ~trayIcon.exists) =>
            /\ calls'[w].pc = "idle"
            /\ calls'[w].ret = "Ok"
            /\ TRAY_VISIBLE' = TRAY_VISIBLE
            /\ TRAY_ENABLED' = TRAY_ENABLED

\* get_tray_enabled returns the value of TRAY_ENABLED.
TrayGetReturnsEnabled ==
    \A w \in Workers :
        (calls'[w].cmd = "get_tray_enabled" /\ calls'[w] # calls[w]) =>
            calls'[w].ret = IF TRAY_ENABLED THEN "Ok(true)" ELSE "Ok(false)"

\* After initialize_tray(false), no step of set_tray_visible enables the
\* tray.
TrayDisabledStaysDisabled ==
    \A w \in Workers :
        (SetTrayVisibleStep(w) /\ lastInit = "disabled" /\ ~TRAY_ENABLED) =>
            ~TRAY_ENABLED'

TrayNoIconHolds == [][TrayGetReturnsEnabled /\ TrayNoIconNoChange]_vars

\* The first part of C11 alone.
TrayFlagsAgreeAlways == [][TrayFlagsAgree']_vars

\* The last part of C11 alone.
TrayDisabledAlways == [][TrayDisabledStaysDisabled]_vars

(***************************************************************************)
(* Claims about the sync-state tracker.                                    *)
(***************************************************************************)
PendingCol(d, r, c) == Col(d.schema["pending_deletions"], r, c)

\* The task rows of d that are resources of calendar c on the server.
MembersOf(d, c) ==
    {r \in TaskRows(d) : TaskCol(d, r, "href") # NULL /\ TaskCol(d, r, "calendar_id") = c}

\* C7: deleting a task that has an href removes its row and leaves a
\* tombstone with its uid, href, account_id and calendar_id, in one step;
\* deleting a task without href removes the row and adds no tombstone; a
\* confirmed remote delete removes the tombstone and nothing else.
C7_DeleteLeavesTombstone ==
    Ready =>
        /\ \A r \in TaskRows(db) :
            LET id  == TaskCol(db, r, "id")
                out == DeleteTaskResult(db, id)
            IN  /\ out.res = "ok"
                /\ RowsWithKey(out.db, "tasks", id) = {}
                /\ IF TaskCol(db, r, "href") # NULL
                   THEN \E p \in out.db.rows["pending_deletions"] :
                          /\ p \notin db.rows["pending_deletions"]
                          /\ \A c \in {"uid", "href", "account_id", "calendar_id"} :
                                PendingCol(db, p, c) = TaskCol(db, r, c)
                   ELSE out.db.rows["pending_deletions"] = db.rows["pending_deletions"]
        /\ \A p \in db.rows["pending_deletions"] :
            LET out == ConfirmRemoteDeleteResult(db, PendingCol(db, p, "uid"))
            IN  /\ out.db.rows["pending_deletions"] = db.rows["pending_deletions"] \ {p}
                /\ \A t \in TableNames \ {"pending_deletions"} :
                      out.db.rows[t] = db.rows[t]

\* C8: in every reachable state and for every fetch of calendar c1: an
\* equal ctag changes no task; a changed etag on a task that is not Dirty
\* overwrites its title and etag and leaves it synced; a changed etag on a
\* Dirty task raises SyncConflict and changes nothing.  A local edit makes a
\* synced task Dirty, and a push with a new etag makes it synced again.
C8_FetchRespectsDirty ==
    Ready =>
        /\ \A ctag \in Ctags, etag \in Etags, title \in RemoteTitles :
            \A k \in RowsWithKey(db, "calendars", "c1") :
                LET out == FetchResult(db, "c1", ctag, "t1", etag, title)
                IN  /\ CalendarCol(db, k, "ctag") = ctag => TaskRows(out.db) = TaskRows(db)
                    /\ \A r \in MembersOf(db, "c1") \cap RowsWithKey(db, "tasks", "t1") :
                        /\ TaskRows(out.db) # TaskRows(db) => ~IsDirty(db, r)
                        /\ ( /\ CalendarCol(db, k, "ctag") # ctag
                             /\ TaskCol(db, r, "etag") # etag )
                           => IF IsDirty(db, r)
                              THEN out.res = "SyncConflict" /\ out.db = db
                              ELSE /\ out.res = "ok"
                                   /\ \E q \in RowsWithKey(out.db, "tasks", "t1") :
                                        /\ TaskCol(out.db, q, "title") = title
                                        /\ TaskCol(out.db, q, "etag") = etag
                                        /\ TaskCol(out.db, q, "synced") = "1"
        /\ \A r \in RowsWithKey(db, "tasks", "t1") :
            /\ \A title \in LocalTitles :
                  TaskCol(db, r, "href") # NULL =>
                      \A q \in RowsWithKey(EditTaskResult(db, "t1", title).db, "tasks", "t1") :
                          IsDirty(EditTaskResult(db, "t1", title).db, q)
            /\ \A etag \in Etags :
                  (IsDirty(db, r) /\ TaskCol(db, r, "calendar_id") # NULL
                                  /\ TaskCol(db, r, "etag") # etag) =>
                      \A q \in RowsWithKey(PushTaskResult(db, "t1", etag).db, "tasks", "t1") :
                          /\ TaskCol(PushTaskResult(db, "t1", etag).db, q, "synced") = "1"
                          /\ TaskCol(PushTaskResult(db, "t1", etag).db, q, "etag") = etag

\* A fetch has just raised SyncConflict on a Dirty task that keeps its
\* local title.
C8_Witness ==
    /\ last.op = "Fetch"
    /\ last.res = "SyncConflict"
    /\ \E r \in MembersOf(db, "c1") :
          /\ IsDirty(db, r)
          /\ TaskCol(db, r, "title") \in LocalTitles
          /\ TaskCol(db, r, "etag") = "e1"

(***************************************************************************)
(* Claims about the migrator.                                              *)
(***************************************************************************)
RECURSIVE RunScript(_, _, _)
\* The store after statements k.. of a script, none of them failing.
RunScript(d, sql, k) ==
    IF k > Len(sql) THEN d ELSE RunScript(Exec(d, sql[k]).db, sql, k + 1)

RECURSIVE FreshStore(_)
\* The store an uninterrupted run leaves at version v, starting from nothing.
FreshStore(v) ==
    IF v = 0 THEN EmptyDb
    ELSE Commit(RunScript(FreshStore(v - 1), Migrations[v].sql, 1), Migrations[v])

\* C1: a run that starts at recorded version v applies exactly the
\* migrations v+1, v+2, ... in that order, no script is rejected by the
\* store, a completed run of the three migrations ends at version 3, and a
\* run that starts at the latest version applies nothing and leaves the
\* schema and every row as they were.
C1_CatchUpIdempotent ==
    /\ \A k \in 1..Len(mig.ran) : mig.ran[k] = mig.start + k
    /\ tx.open => Migrations[mig.i].version = mig.start + Len(mig.ran) + 1
    /\ mig.state = "failed" => mig.err = "io"
    /\ mig.state = "done" =>
          /\ db.applied = 1..mig.n
          /\ Len(mig.ran) = mig.n - mig.start
          /\ mig.start = mig.n => db = mig.before

\* A second run over a migrated store that holds tasks has completed.
C1_Witness ==
    /\ mig.state = "done"
    /\ mig.n = 3
    /\ mig.start = 3
    /\ mig.ran = <<>>
    /\ TaskRows(db) # {}

\* C2: the committed store never holds a partly applied migration: its
\* schema and indexes are those of the version it records, a script in
\* progress has not touched it, and a failed migration leaves it exactly as
\* it was when that migration began, the version not advanced.
C2_NoPartialMigration ==
    /\ db.schema = FreshStore(Version(db)).schema
    /\ db.indexes = FreshStore(Version(db)).indexes
    /\ db.applied = 1..Version(db)
    /\ tx.open => db = mig.base
    /\ mig.state = "failed" =>
          /\ db = mig.base
          /\ Version(db) = mig.start + Len(mig.ran)

\* Migration 2 has failed after DROP TABLE tasks, before the rename, on a
\* store that holds tasks.
C2_Witness ==
    /\ mig.state = "failed"
    /\ Version(db) = 1
    /\ mig.at = 4
    /\ TaskRows(db) # {}

\* C10: migration 2 keeps every task row with every column value and
\* leaves the other tables and the indexes alone, the one change being that
\* tasks.account_id and tasks.calendar_id accept null; migration 3 adds
\* the url column, null in every row, and changes nothing else.
C10_MigrationsPreserveData ==
    [][ LET old  == db.schema["tasks"]
            new  == db'.schema["tasks"]
            rest == TableNames \ {"tasks"}
            same == /\ \A t \in rest : /\ db'.rows[t] = db.rows[t]
                                       /\ db'.schema[t] = db.schema[t]
                    /\ db'.indexes = db.indexes
        IN  /\ (Version(db) = 1 /\ Version(db') = 2) =>
                  /\ same
                  /\ new = [old EXCEPT !.notnull = @ \ {"account_id", "calendar_id"}]
                  /\ {Named(new, r) : r \in TaskRows(db')}
                        = {Named(old, r) : r \in TaskRows(db)}
            /\ (Version(db) = 2 /\ Version(db') = 3) =>
                  /\ same
                  /\ new = [old EXCEPT !.cols = Append(@, "url")]
                  /\ {Named(new, r) : r \in TaskRows(db')}
                        = {[c \in Range(new.cols) |->
                              IF c = "url" THEN NULL ELSE Named(old, r)[c]]
                           : r \in TaskRows(db)}
      ]_vars

\* A run has taken a store with a synchronised task from version 1 to 3.
C10_Witness ==
    /\ mig.state = "done"
    /\ mig.ran = <<2, 3>>
    /\ \E r \in TaskRows(db) :
          /\ TaskCol(db, r, "href") = "h1"
          /\ TaskCol(db, r, "url") = NULL
    /\ db.rows["tags"] # {}
    /\ db.rows["pending_deletions"] # {}

(***************************************************************************)
(* Claims about the constraints of the store.                              *)
(***************************************************************************)
Ids(d, t) == {Col(d.schema[t], r, "id") : r \in d.rows[t]}

\* The calendars of store d that the accounts A own.
CalendarsOf(d, A) ==
    {CalendarCol(d, r, "id") :
        r \in {q \in d.rows["calendars"] : CalendarCol(d, q, "account_id") \in A}}

\* C3: a step that removes accounts removes exactly their calendars and
\* the tasks that name one of these accounts or one of their calendars; a
\* step that removes calendars only removes exactly the tasks that name
\* them; every other row stays as it was.
C3_DeletesCascade ==
    [][ LET A == Ids(db, "accounts") \ Ids(db', "accounts")
            C == Ids(db, "calendars") \ Ids(db', "calendars")
            owned == CalendarsOf(db, A)
            others == \A t \in {"tags", "pending_deletions", "ui_state"} :
                         db'.rows[t] = db.rows[t]
        IN  /\ A # {} =>
                  /\ db'.rows["accounts"] \subseteq db.rows["accounts"]
                  /\ db'.rows["calendars"] =
                        {r \in db.rows["calendars"] :
                            CalendarCol(db, r, "account_id") \notin A}
                  /\ TaskRows(db') =
                        {r \in TaskRows(db) :
                            /\ TaskCol(db, r, "account_id") \notin A
                            /\ TaskCol(db, r, "calendar_id") \notin owned}
                  /\ others
            /\ (A = {} /\ C # {}) =>
                  /\ db'.rows["accounts"] = db.rows["accounts"]
                  /\ db'.rows["calendars"] \subseteq db.rows["calendars"]
                  /\ TaskRows(db') =
                        {r \in TaskRows(db) : TaskCol(db, r, "calendar_id") \notin C}
                  /\ others
      ]_vars

\* Account a1 owns calendar c1 and a task in it, account a2 owns a row of
\* its own, and deleting a1 takes the former and keeps the latter.
C3_Witness ==
    /\ Version(db) = 3
    /\ Ids(db, "accounts") = {"a1", "a2"}
    /\ CalendarsOf(db, {"a1"}) = {"c1"}
    /\ CalendarsOf(db, {"a2"}) = {"c2"}
    /\ \E r \in TaskRows(db) : /\ TaskCol(db, r, "account_id") = NULL
                                /\ TaskCol(db, r, "calendar_id") = "c1"
    /\ \E r \in TaskRows(db) : TaskCol(db, r, "calendar_id") = "c2"
    /\ LET after == SqlDelete(db, "accounts", "a1").db
       IN  /\ Ids(after, "calendars") = {"c2"}
           /\ Cardinality(TaskRows(after)) = 1

\* C4: no two task rows have the same uid, and an INSERT or an UPDATE that
\* would give a second row the uid of an existing one is rejected and
\* leaves the store as it was.
C4_UidUnique ==
    /\ \A r1, r2 \in TaskRows(db) :
          TaskCol(db, r1, "uid") = TaskCol(db, r2, "uid") => r1 = r2
    /\ Serving =>
      /\ \A id \in TaskIds, uid \in Uids,
            a \in AccountIds \cup {NULL}, c \in CalendarIds \cup {NULL} :
            LET res == SqlInsert(db, "tasks", TaskVals(id, uid, NULL, NULL, a, c))
            IN  (\E r \in TaskRows(db) : TaskCol(db, r, "uid") = uid) =>
                    res.err # "ok" /\ res.db = db
      /\ \A r \in TaskRows(db), uid \in Uids :
            LET res == SqlUpdate(db, "tasks", TaskCol(db, r, "id"), [uid |-> uid])
            IN  (\E q \in TaskRows(db) \ {r} : TaskCol(db, q, "uid") = uid) =>
                    res.err # "ok" /\ res.db = db

\* Two tasks are stored at version 3 and giving t1 the uid of t2 is refused
\* for that reason alone.
C4_Witness ==
    /\ Version(db) = 3
    /\ Ids(db, "tasks") = {"t1", "t2"}
    /\ SqlUpdate(db, "tasks", "t1", [uid |-> "u2"]).err = "UNIQUE"
    /\ \E a \in AccountIds, c \in CalendarIds :
          SqlInsert(db, "tasks", TaskVals("t1", "u1", NULL, NULL, a, c)).err
              = "UNIQUE"

\* C5: once migration 1 is applied, ui_state holds exactly one row, and its
\* id is 1.
C5_UiStateSingleton ==
    Version(db) >= 1 =>
      /\ Cardinality(db.rows["ui_state"]) = 1
      /\ \A r \in db.rows["ui_state"] : Col(db.schema["ui_state"], r, "id") = "1"

\* What the CHECK and the primary key of ui_state do enforce.
UiStateAtMostOne ==
    /\ Cardinality(db.rows["ui_state"]) <= 1
    /\ \A r \in db.rows["ui_state"] : Col(db.schema["ui_state"], r, "id") = "1"

\* C6: from version 2 on, a task with an account_id has a calendar_id that
\* names an existing calendar of that account.
C6_OwnerConsistent ==
    Version(db) >= 2 =>
      \A r \in TaskRows(db) :
          TaskCol(db, r, "account_id") # NULL =>
            /\ TaskCol(db, r, "calendar_id") # NULL
            /\ \E k \in db.rows["calendars"] :
                  /\ CalendarCol(db, k, "id") = TaskCol(db, r, "calendar_id")
                  /\ CalendarCol(db, k, "account_id") = TaskCol(db, r, "account_id")

\* The task rows whose uid is u.
TasksWithUid(d, u) == {r \in TaskRows(d) : TaskCol(d, r, "uid") = u}

RECURSIVE OnParentChain(_, _, _, _)
\* Whether uid target is met within n steps up the parent_uid chain of uid u.
OnParentChain(d, u, target, n) ==
    IF n = 0 \/ TasksWithUid(d, u) = {} THEN FALSE
    ELSE LET p == TaskCol(d, CHOOSE r \in TasksWithUid(d, u) : TRUE, "parent_uid")
         IN  \/ p = target
             \/ (p # NULL /\ OnParentChain(d, p, target, n - 1))

\* C9: the parent_uid relation is a forest: a non-null parent_uid is the
\* uid of another stored task, and no task is met again on its own chain.
C9_ParentForest ==
    \A r \in TaskRows(db) :
        LET u == TaskCol(db, r, "uid")
            p == TaskCol(db, r, "parent_uid")
        IN  /\ p # NULL => (p # u /\ TasksWithUid(db, p) # {})
            /\ ~OnParentChain(db, u, u, Cardinality(TaskRows(db)))

\* The other half of C9: a write that makes a task its own ancestor is
\* refused and changes nothing.
C9_CycleRejected ==
    Serving =>
      \A r \in TaskRows(db), parent \in Uids :
          (parent = TaskCol(db, r, "uid")
             \/ OnParentChain(db, parent, TaskCol(db, r, "uid"),
                              Cardinality(TaskRows(db)))) =>
            LET res == SqlUpdate(db, "tasks", TaskCol(db, r, "id"),
                                 [parent_uid |-> parent])
            IN  res.err # "ok" /\ res.db = db

====
